---- MODULE Spec2Model ----
(***************************************************************************)
(* GitHubService (the rate-limit aware version of githubService.ts): the   *)
(* cache layer, the rate-limit gate, the contributor pagination loop and   *)
(* the error normalizer, as a state machine over one service instance.     *)
(*                                                                         *)
(* One step of the model is one run of JavaScript between two suspensions  *)
(* that wait for the outside world (a transport response, a timer): the    *)
(* event loop runs such a stretch without interleaving any other callback. *)
(***************************************************************************)
EXTENDS Integers, Sequences, FiniteSets, TLC

\* ------------------------------------------------------------------ bounds
\* The clock runs from 0 to MaxClock milliseconds in steps of TickMs.
MaxClock == 2000
TickMs == 1000
\* The rate-limit endpoint answers remaining in 0..MaxRemaining.
MaxRemaining == 2
\* Fire-and-forget refreshes outstanding at once, and keys one run caches.
MaxBg == 2
MaxEntries == 1
\* The rate-limit answers followed from their making to their arrival.
MaxAnswers == 3

\* ------------------------------------------------------- program constants
MsPerSecond == 1000
BufferMs == 1000
MaxPerPage == 100
\* the constructor's defaults: cacheTtl in seconds, rateLimitThreshold
DefaultCacheTtl == 300
DefaultThreshold == 100
\* the CLI's default for [limit]
DefaultLimit == 10

\* ------------------------------------------------------------ input spaces
Users == {"octocat"}
Repos == {"Hello-World"}
\* the versions of an upstream entity, the sizes of an upstream repository
\* listing, and the reset instants (epoch seconds) the rate-limit endpoint names
DataValues == {1, 2}
RepoCounts == {0, 1, 2}
RemainingValues == 0..MaxRemaining
ResetValues == {1}
PerPageValues == {1, 2}
CacheTtlSeconds == {0, 1}
Thresholds == {-1, 1}
\* getRepoContributors: the limits asked for and the sizes of the upstream
\* listing, beside the other operations (Small) and on their own (Page)
SmallLimits == {-1, 0, 2}
SmallListings == {2}
PageLimits == {1, 3, 5, 100, 101, 150, 200, 250}
PageListings == {0, 2, 3, 5, 60, 100, 101, 120, 150, 200, 260}

\* number | null
Null == <<>>
Some(n) == <<n>>
Val(x) == x[1]

Min(a, b) == IF a < b THEN a ELSE b
Max(a, b) == IF a > b THEN a ELSE b
\* Math.ceil(a / b) and Math.floor(a / b) for a >= 0, b > 0
CeilDiv(a, b) == (a + b - 1) \div b
FloorDiv(a, b) == a \div b

VARIABLES
    enableCache,          \* readonly, set by the constructor
    cacheTtl,             \* readonly, milliseconds
    rateLimitThreshold,   \* readonly
    failOnRateLimit,      \* readonly
    cache,                \* Map<string, {data, expiry}>: a function on the keys present
    rateLimitRemaining,   \* number | null
    rateLimitReset,       \* number | null
    clock,                \* Date.now()
    procs,                \* the callers of the service
    call,                 \* per caller: the public operation it is in, and where
    bgRefresh,            \* outstanding fire-and-forget updateRateLimit() requests
    failedRefresh         \* what updateRateLimit's catch last logged, "inline" (awaited
                          \* by the gate) or "background" (fire-and-forget), or "none"
                          \* once a rate-limit-status request has succeeded or a gated
                          \* request has been issued since
VARIABLES
    env,                  \* process.env.GITHUB_TOKEN as config.ts exports it
    service,              \* the constructor call: not made yet, returned, or threw
    main,                 \* the CLI's main(): where it is, its argv, its exit code
    upstream              \* the rate-limit answers of the API in the order it made
                          \* them: how many, which are on their way, which one the
                          \* tracker was last written from

\* what no operation of the service changes: the constructor's readonly fields
\* and the program around the service
config == <<enableCache, cacheTtl, rateLimitThreshold, failOnRateLimit, procs,
            env, service, main, upstream>>
tracker == <<rateLimitRemaining, rateLimitReset>>
vars == <<enableCache, cacheTtl, rateLimitThreshold, failOnRateLimit, cache,
          rateLimitRemaining, rateLimitReset, clock, procs, call, bgRefresh,
          failedRefresh, env, service, main, upstream>>

\* A caller that is in no operation. nReq, nGate, nRefresh and nSleep count, for
\* the operation in progress, the transport requests of the operation itself,
\* the checkRateLimit evaluations, the rate-limit requests and the timers.
IdleCall ==
    [pc |-> "idle", op |-> "none", key |-> "", context |-> "", now |-> 0,
     wakeAt |-> 0, perPage |-> 0, limit |-> 0, upN |-> 0, page |-> 0,
     itemsNeeded |-> 0, acc |-> <<>>, result |-> <<>>, err |-> <<>>,
     nReq |-> 0, nGate |-> 0, nRefresh |-> 0, nSleep |-> 0, cached |-> <<>>,
     thrown |-> <<>>]

\* ------------------------------------------------------------------ errors
\* What the transport can throw: an Error carrying an HTTP response, an Error
\* without one, and a thrown value that is no Error.
TransportErrors ==
    { [isError |-> TRUE, message |-> "Not Found", status |-> Some(404),
       bodyMessage |-> "Not Found - https://docs.github.com/rest"],
      [isError |-> TRUE, message |-> "socket hang up", status |-> Null,
       bodyMessage |-> ""],
      [isError |-> FALSE, message |-> "", status |-> Null, bodyMessage |-> ""] }

GitHubServiceError(context, originalError, status) ==
    [name |-> "GitHubServiceError",
     message |-> context \o ": " \o originalError.message,
     context |-> context,
     status |-> status,
     cause |-> originalError]

UnknownError ==
    [isError |-> TRUE, message |-> "An unknown error occurred", status |-> Null,
     bodyMessage |-> ""]

\* the status of the response left out
handleError_NoStatus(error, context) ==
    IF "isError" \in DOMAIN error /\ error.isError
    THEN GitHubServiceError(context, error, Null)
    ELSE GitHubServiceError(context, UnknownError, Null)

\* the message field of the response body preferred to the error's own message
handleError_PreferBody(error, context) ==
    IF "isError" \in DOMAIN error /\ error.isError
    THEN [GitHubServiceError(context, error, error.status) EXCEPT
            !.message = context \o ": " \o
                          (IF error.bodyMessage # "" THEN error.bodyMessage
                           ELSE error.message)]
    ELSE GitHubServiceError(context, UnknownError, Null)

\* the context put after the message
handleError_ContextLast(error, context) ==
    LET e == IF "isError" \in DOMAIN error /\ error.isError THEN error ELSE UnknownError
    IN  [GitHubServiceError(context, e, e.status) EXCEPT
            !.message = e.message \o ": " \o context]

handleError(error, context) ==
    IF "isError" \in DOMAIN error /\ error.isError
    THEN GitHubServiceError(context, error, error.status)
    ELSE GitHubServiceError(context, UnknownError, Null)

\* ------------------------------------------------------------- cache layer
UserKey(username) == "user:" \o username
RepoKey(owner, repo) == "repo:" \o owner \o "/" \o repo
UserReposKey(username) == "userRepos:" \o username

\* the comparison turned around
CacheFresh_Inverted(key, now) == key \in DOMAIN cache /\ cache[key].expiry < now

\* an entry still served at the instant it expires
CacheFresh_NonStrict(key, now) == key \in DOMAIN cache /\ cache[key].expiry >= now

\* cached && cached.expiry > now
CacheFresh(key, now) == key \in DOMAIN cache /\ cache[key].expiry > now

\* an entry that is there is kept, expired or not
CacheSet_KeepExisting(key, data, now) ==
    [k \in DOMAIN cache \cup {key} |->
        IF k \in DOMAIN cache THEN cache[k]
        ELSE [data |-> data, expiry |-> now + cacheTtl]]

\* this.cache.set(key, { data, expiry: now + this.cacheTtl })
CacheSet(key, data, now) ==
    [k \in DOMAIN cache \cup {key} |->
        IF k = key THEN [data |-> data, expiry |-> now + cacheTtl] ELSE cache[k]]

\* ------------------------------------------------------- rate limit tracker
NowSeconds == FloorDiv(clock, MsPerSecond)

\* the threshold test off by one
GateSkips_OffByOne ==
    rateLimitRemaining = Null \/ Val(rateLimitRemaining) > rateLimitThreshold + 1

\* checkRateLimit's first test: nothing known yet, or plenty left
GateSkips ==
    rateLimitRemaining = Null \/ Val(rateLimitRemaining) > rateLimitThreshold

\* the window taken to include the reset instant itself
InWindow_Inclusive == rateLimitReset # Null /\ NowSeconds <= Val(rateLimitReset)

\* still within the rate limit window
InWindow == rateLimitReset # Null /\ NowSeconds < Val(rateLimitReset)

\* the exhaustion test made strict
Exhausted_Strict == Val(rateLimitRemaining) < 0

Exhausted == Val(rateLimitRemaining) <= 0

WaitTime == (Val(rateLimitReset) - NowSeconds) * MsPerSecond

\* the timer without its one second buffer
WakeAt_NoBuffer == clock + WaitTime

\* setTimeout(resolve, waitTime + 1000)
WakeAt == clock + WaitTime + BufferMs

RateLimitError ==
    [isError |-> TRUE,
     message |-> "GitHub API rate limit exceeded. Resets in "
                   \o ToString(CeilDiv(WaitTime, MsPerSecond)) \o " seconds.",
     status |-> Null, bodyMessage |-> ""]

\* the refresh test made strict
NeedsRefresh_Strict == Val(rateLimitRemaining) < rateLimitThreshold

\* the test that guards the inline refresh
NeedsRefresh == Val(rateLimitRemaining) <= rateLimitThreshold

\* checkRateLimit up to its first suspension: "pass" (it returns), "fail" (it
\* throws), "sleep" (it awaits the timer) or "refresh" (it awaits updateRateLimit)
checkRateLimit ==
    IF GateSkips THEN "pass"
    ELSE IF InWindow /\ Exhausted
         THEN (IF failOnRateLimit THEN "fail" ELSE "sleep")
         ELSE (IF NeedsRefresh THEN "refresh" ELSE "pass")

\* the local count stepped the wrong way
Decremented_Up == Some(Max(0, Val(rateLimitRemaining) + 1))

\* the decrement after a completed request
Decremented == Some(Max(0, Val(rateLimitRemaining) - 1))

\* ---------------------------------------------------------- construction
\* string | undefined: the values a token can have where it is read
EnvTokens == {Null, Some(""), Some("ghp_env")}
OptionTokens == {Null, Some(""), Some("ghp_opt")}

\* !x for a string | undefined
Falsy(x) == x = Null \/ x = Some("")

\* a || b
OrElse(a, b) == IF Falsy(a) THEN b ELSE a

\* a ?? d
Coalesce(a, d) == IF a = Null THEN d ELSE Val(a)

\* GitHubServiceOptions, every field optional
NoOptions ==
    [token |-> Null, enableCache |-> Null, cacheTtl |-> Null,
     rateLimitThreshold |-> Null, failOnRateLimit |-> Null]

OptionSets ==
    [token : OptionTokens, enableCache : {Null, Some(TRUE)}, cacheTtl : {Null, Some(0)},
     rateLimitThreshold : {Null, Some(1)}, failOnRateLimit : {Null, Some(TRUE)}]

TokenErrorMessage == "GitHub token must be a non-empty string"

\* no constructor call made yet
Unbuilt == [state |-> "unbuilt", options |-> NoOptions, token |-> Null, error |-> ""]

\* main() not started, with its argv
NotRun(args) == [pc |-> "start", args |-> args, exit |-> Null]

\* the token test left out
constructor_NoValidation(options) ==
    LET token == OrElse(options.token, env) IN
    /\ service.state = "unbuilt"
    /\ service' = [state |-> "built", options |-> options, token |-> token, error |-> ""]
    /\ enableCache' = Coalesce(options.enableCache, FALSE)
    /\ cacheTtl' = Coalesce(options.cacheTtl, DefaultCacheTtl) * MsPerSecond
    /\ rateLimitThreshold' = Coalesce(options.rateLimitThreshold, DefaultThreshold)
    /\ failOnRateLimit' = Coalesce(options.failOnRateLimit, FALSE)
    /\ UNCHANGED <<env, procs, cache, tracker, clock, call, bgRefresh, failedRefresh,
                   upstream>>

\* new GitHubService(options): the token from the options or else from the
\* environment, its test, then the readonly fields. The Octokit client is built
\* from a token that has passed the test and makes no request in its constructor.
constructor(options) ==
    LET token == OrElse(options.token, env) IN
    /\ service.state = "unbuilt"
    /\ IF Falsy(token)
       THEN /\ service' = [state |-> "threw", options |-> options, token |-> Null,
                           error |-> TokenErrorMessage]
            /\ UNCHANGED <<enableCache, cacheTtl, rateLimitThreshold, failOnRateLimit>>
       ELSE /\ service' = [state |-> "built", options |-> options, token |-> token,
                           error |-> ""]
            /\ enableCache' = Coalesce(options.enableCache, FALSE)
            /\ cacheTtl' = Coalesce(options.cacheTtl, DefaultCacheTtl) * MsPerSecond
            /\ rateLimitThreshold' = Coalesce(options.rateLimitThreshold, DefaultThreshold)
            /\ failOnRateLimit' = Coalesce(options.failOnRateLimit, FALSE)
    /\ UNCHANGED <<env, procs, cache, tracker, clock, call, bgRefresh, failedRefresh,
                   upstream>>

\* no rate-limit answer followed from its making to its arrival
Quiet == [produced |-> 0, applied |-> 0, wire |-> {}, latest |-> Null]

\* a service built by a program that is not the CLI
Embedded ==
    /\ env = Some("ghp_env")
    /\ service = [state |-> "built", options |-> NoOptions, token |-> Some("ghp_env"),
                  error |-> ""]
    /\ main = NotRun(<<>>)
    /\ upstream = Quiet

\* ---------------------------------------------------------------- Init
Init ==
    /\ enableCache \in BOOLEAN
    /\ cacheTtl \in {s * MsPerSecond : s \in CacheTtlSeconds}
    /\ enableCache \/ cacheTtl = 0
    /\ rateLimitThreshold \in Thresholds
    /\ failOnRateLimit \in BOOLEAN
    /\ cache = [k \in {} |-> 0]
    /\ rateLimitRemaining = Null
    /\ rateLimitReset = Null
    /\ clock = 0
    /\ procs = {1}
    /\ call = [p \in procs |-> IdleCall]
    /\ bgRefresh = 0
    /\ failedRefresh = "none"
    /\ Embedded

\* the keys in the cache or about to be stored by a call in progress
KeysInUse == (DOMAIN cache \cup {call[q].key : q \in procs}) \ {""}

\* a caller starts a cached operation: the run stays within its bounds
Begin(p, key) ==
    /\ call[p].pc = "idle"
    /\ bgRefresh + Cardinality({q \in procs : call[q].pc # "idle"}) < MaxBg
    /\ enableCache => Cardinality(KeysInUse \cup {key}) <= MaxEntries

\* ------------------------------------------------------------ operations
\* executeWithRateLimitProtection from its entry: the gate, then (when the gate
\* lets the call through at once) the request itself.
Enter(p, c) ==
    LET g == [c EXCEPT !.nGate = @ + 1] IN
    CASE checkRateLimit = "pass" ->
           /\ call' = [call EXCEPT ![p] = [g EXCEPT !.pc = "inflight", !.nReq = @ + 1]]
           /\ failedRefresh' = "none"
      [] checkRateLimit = "fail" ->
           /\ call' = [call EXCEPT ![p] =
                         [g EXCEPT !.pc = "failed",
                                   !.thrown = Some(RateLimitError),
                                   !.err = Some(handleError(RateLimitError, c.context))]]
           /\ UNCHANGED failedRefresh
      [] checkRateLimit = "sleep" ->
           /\ call' = [call EXCEPT ![p] =
                         [g EXCEPT !.pc = "sleeping", !.wakeAt = WakeAt, !.nSleep = @ + 1]]
           /\ UNCHANGED failedRefresh
      [] checkRateLimit = "refresh" ->
           /\ call' = [call EXCEPT ![p] =
                         [g EXCEPT !.pc = "refreshing", !.nRefresh = @ + 1]]
           /\ UNCHANGED failedRefresh

\* withCache(key, fetchFn) up to its first suspension
withCache(p, opname, key, context, per_page) ==
    LET c == [IdleCall EXCEPT !.op = opname, !.key = key, !.context = context,
                              !.perPage = per_page,
                              !.now = IF enableCache THEN clock ELSE 0,
                              !.cached = IF enableCache /\ key \in DOMAIN cache
                                         THEN Some(cache[key]) ELSE Null] IN
    /\ Begin(p, key)
    /\ IF enableCache /\ CacheFresh(key, clock)
       THEN /\ call' = [call EXCEPT ![p] =
                           [c EXCEPT !.pc = "done", !.result = Some(cache[key].data)]]
            /\ UNCHANGED failedRefresh
       ELSE Enter(p, c)
    /\ UNCHANGED <<config, cache, tracker, clock, bgRefresh>>

getUser(p, username) ==
    withCache(p, "getUser", UserKey(username),
              "Failed to fetch user " \o username, 0)

getRepo(p, owner, repo) ==
    withCache(p, "getRepo", RepoKey(owner, repo),
              "Failed to fetch repository " \o owner \o "/" \o repo, 0)

getUserRepos(p, username, per_page) ==
    withCache(p, "getUserRepos", UserReposKey(username),
              "Failed to fetch repositories for user " \o username, per_page)

\* the timer of checkRateLimit fires: the rest of the gate, then the request
Wake(p) ==
    /\ call[p].pc = "sleeping"
    /\ clock >= call[p].wakeAt
    /\ IF NeedsRefresh
       THEN /\ call' = [call EXCEPT ![p].pc = "refreshing", ![p].nRefresh = @ + 1]
            /\ UNCHANGED failedRefresh
       ELSE /\ call' = [call EXCEPT ![p].pc = "inflight", ![p].nReq = @ + 1]
            /\ failedRefresh' = "none"
    /\ UNCHANGED <<config, cache, tracker, clock, bgRefresh>>

\* the gate looked at again after the refresh: a second wait when the
\* refreshed numbers say exhausted
RefreshOk_Recheck(p, remaining, reset) ==
    /\ call[p].pc = "refreshing"
    /\ rateLimitRemaining' = Some(remaining)
    /\ rateLimitReset' = Some(reset)
    /\ IF remaining <= 0 /\ NowSeconds < reset /\ ~failOnRateLimit
       THEN call' = [call EXCEPT ![p].pc = "sleeping", ![p].nSleep = @ + 1,
                                 ![p].wakeAt = clock + (reset - NowSeconds) * MsPerSecond
                                                 + BufferMs]
       ELSE call' = [call EXCEPT ![p].pc = "inflight", ![p].nReq = @ + 1]
    /\ UNCHANGED <<config, cache, clock, bgRefresh>>
    /\ failedRefresh' = "none"

\* updateRateLimit awaited by the gate: the rate-limit request answers, and the
\* gate returns into the request
RefreshOk(p, remaining, reset) ==
    /\ call[p].pc = "refreshing"
    /\ rateLimitRemaining' = Some(remaining)
    /\ rateLimitReset' = Some(reset)
    /\ call' = [call EXCEPT ![p].pc = "inflight", ![p].nReq = @ + 1]
    /\ UNCHANGED <<config, cache, clock, bgRefresh>>
    /\ failedRefresh' = "none"

\* the failure of the refresh thrown on into the operation
RefreshFails_Throws(p) ==
    /\ call[p].pc = "refreshing"
    /\ call' = [call EXCEPT ![p].pc = "failed",
                            ![p].thrown = Some(UnknownError),
                            ![p].err = Some(handleError(UnknownError, call[p].context))]
    /\ UNCHANGED <<config, cache, tracker, clock, bgRefresh>>
    /\ failedRefresh' = "inline"

\* updateRateLimit awaited by the gate: the rate-limit request fails, the catch
\* logs it, and the gate returns into the request
RefreshFails(p) ==
    /\ call[p].pc = "refreshing"
    /\ call' = [call EXCEPT ![p].pc = "inflight", ![p].nReq = @ + 1]
    /\ UNCHANGED <<config, cache, tracker, clock, bgRefresh>>
    /\ failedRefresh' = "inline"

\* what the upstream answers to the request of a cached operation
ResponseData(c) ==
    IF c.op = "getUserRepos"
    THEN {Min(c.perPage, n) : n \in RepoCounts}
    ELSE DataValues

\* a fire-and-forget refresh started after every answer, remaining known or not
Response_AlwaysRefresh(p, data) ==
    /\ call[p].pc = "inflight"
    /\ call[p].op \in {"getUser", "getRepo", "getUserRepos"}
    /\ bgRefresh' = bgRefresh + 1
    /\ rateLimitRemaining' =
          IF rateLimitRemaining = Null THEN Null ELSE Decremented
    /\ UNCHANGED rateLimitReset
    /\ cache' = IF enableCache THEN CacheSet(call[p].key, data, call[p].now) ELSE cache
    /\ call' = [call EXCEPT ![p].pc = "done", ![p].result = Some(data)]
    /\ UNCHANGED <<config, failedRefresh, clock>>

\* the refresh after the first answer awaited before the operation returns
Response_AwaitsRefresh(p, data) ==
    /\ call[p].pc = "inflight"
    /\ call[p].op \in {"getUser", "getRepo", "getUserRepos"}
    /\ IF rateLimitRemaining = Null
       THEN /\ call' = [call EXCEPT ![p].pc = "refreshing", ![p].nRefresh = @ + 1]
            /\ UNCHANGED <<tracker, bgRefresh, cache>>
       ELSE /\ rateLimitRemaining' = Decremented
            /\ cache' = IF enableCache THEN CacheSet(call[p].key, data, call[p].now)
                        ELSE cache
            /\ call' = [call EXCEPT ![p].pc = "done", ![p].result = Some(data)]
            /\ UNCHANGED <<rateLimitReset, bgRefresh>>
    /\ UNCHANGED <<config, failedRefresh, clock>>

\* the expiry counted from the moment the result is stored
Response_StoreTime(p, data) ==
    /\ call[p].pc = "inflight"
    /\ call[p].op \in {"getUser", "getRepo", "getUserRepos"}
    /\ IF rateLimitRemaining = Null
       THEN /\ bgRefresh' = bgRefresh + 1
            /\ UNCHANGED tracker
       ELSE /\ rateLimitRemaining' = Decremented
            /\ UNCHANGED <<rateLimitReset, bgRefresh>>
    /\ cache' = IF enableCache THEN CacheSet(call[p].key, data, clock) ELSE cache
    /\ call' = [call EXCEPT ![p].pc = "done", ![p].result = Some(data)]
    /\ UNCHANGED <<config, failedRefresh, clock>>

\* the result stored whether caching is enabled or not
Response_StoresAlways(p, data) ==
    /\ call[p].pc = "inflight"
    /\ call[p].op \in {"getUser", "getRepo", "getUserRepos"}
    /\ IF rateLimitRemaining = Null
       THEN /\ bgRefresh' = bgRefresh + 1
            /\ UNCHANGED tracker
       ELSE /\ rateLimitRemaining' = Decremented
            /\ UNCHANGED <<rateLimitReset, bgRefresh>>
    /\ cache' = CacheSet(call[p].key, data, call[p].now)
    /\ call' = [call EXCEPT ![p].pc = "done", ![p].result = Some(data)]
    /\ UNCHANGED <<config, failedRefresh, clock>>

\* the request of a cached operation answers: the tracker's bookkeeping, the
\* cache store, the return
Response(p, data) ==
    /\ call[p].pc = "inflight"
    /\ call[p].op \in {"getUser", "getRepo", "getUserRepos"}
    /\ IF rateLimitRemaining = Null
       THEN /\ bgRefresh' = bgRefresh + 1
            /\ UNCHANGED tracker
       ELSE /\ rateLimitRemaining' = Decremented
            /\ UNCHANGED <<rateLimitReset, bgRefresh>>
    /\ cache' = IF enableCache THEN CacheSet(call[p].key, data, call[p].now) ELSE cache
    /\ call' = [call EXCEPT ![p].pc = "done", ![p].result = Some(data)]
    /\ UNCHANGED <<config, failedRefresh, clock>>

\* ------------------------------------------------------ pagination engine
\* The upstream listing of n contributors is 1..n in upstream order (sorted by
\* contributions, descending): item i has made Contributions(n, i) contributions.
Contributions(n, i) == n - i

\* page/per_page offset semantics: the items (page-1)*per_page+1 .. page*per_page
UpstreamPage(n, page, per_page) ==
    LET first == (page - 1) * per_page + 1
        last == Min(page * per_page, n)
    IN  [i \in 1..Max(0, last - first + 1) |-> first + i - 1]

PerPage(limit) == Min(MaxPerPage, limit)

TotalPages(limit) == CeilDiv(limit, PerPage(limit))

\* every page asked in full, the last one too
ItemsNeeded_Full(limit, currentPage, have) == PerPage(limit)

ItemsNeeded(limit, currentPage, have) ==
    IF currentPage = TotalPages(limit) THEN limit - have ELSE PerPage(limit)

\* the loop left on an empty page only
ShortPage_EmptyOnly(got, itemsNeeded) == got = 0

\* the loop's exit test after a page
ShortPage(got, itemsNeeded) == got < itemsNeeded

\* the head of the for loop at currentPage = c.page: the request of that page,
\* or the return of what has been collected
LoopHead(c) ==
    LET need == ItemsNeeded(c.limit, c.page, Len(c.acc)) IN
    IF c.page <= TotalPages(c.limit) /\ need > 0
    THEN [c EXCEPT !.pc = "page", !.itemsNeeded = need, !.nReq = @ + 1]
    ELSE [c EXCEPT !.pc = "done", !.result = Some(c.acc)]

\* the tracker's bookkeeping done for a call that returns early
getRepoContributors_Counted(p, owner, repo, limit, n) ==
    LET c == [IdleCall EXCEPT
                !.op = "getRepoContributors", !.limit = limit, !.upN = n,
                !.context = "Failed to fetch contributors for repository "
                              \o owner \o "/" \o repo] IN
    /\ call[p].pc = "idle"
    /\ IF limit <= 0
       THEN /\ call' = [call EXCEPT ![p] = [c EXCEPT !.pc = "done", !.result = Some(<<>>)]]
            /\ rateLimitRemaining' =
                  IF rateLimitRemaining = Null THEN Null
                  ELSE Some(Max(0, Val(rateLimitRemaining) - 1))
       ELSE /\ call' = [call EXCEPT ![p] = LoopHead([c EXCEPT !.page = 1])]
            /\ UNCHANGED rateLimitRemaining
    /\ UNCHANGED <<config, failedRefresh, cache, rateLimitReset, clock, bgRefresh>>

\* getRepoContributors up to its first suspension; n is the size of the upstream
\* listing while the call lasts
getRepoContributors(p, owner, repo, limit, n) ==
    LET c == [IdleCall EXCEPT
                !.op = "getRepoContributors", !.limit = limit, !.upN = n,
                !.context = "Failed to fetch contributors for repository "
                              \o owner \o "/" \o repo] IN
    /\ call[p].pc = "idle"
    /\ IF limit <= 0
       THEN call' = [call EXCEPT ![p] = [c EXCEPT !.pc = "done", !.result = Some(<<>>)]]
       ELSE call' = [call EXCEPT ![p] = LoopHead([c EXCEPT !.page = 1])]
    /\ UNCHANGED <<config, failedRefresh, cache, tracker, clock, bgRefresh>>

\* the collected list stored in the cache when the loop ends
PageResponse_Stores(p) ==
    LET c == call[p]
        contributors == UpstreamPage(c.upN, c.page, c.itemsNeeded)
        d == [c EXCEPT !.acc = @ \o contributors]
        e == LoopHead([d EXCEPT !.page = @ + 1])
    IN
    /\ c.pc = "page"
    /\ IF ShortPage(Len(contributors), c.itemsNeeded)
       THEN call' = [call EXCEPT ![p] = [d EXCEPT !.pc = "done", !.result = Some(d.acc)]]
       ELSE call' = [call EXCEPT ![p] = e]
    /\ cache' = IF enableCache /\ call'[p].pc = "done"
                THEN CacheSet("contributors", Len(d.acc), clock) ELSE cache
    /\ UNCHANGED <<config, failedRefresh, tracker, clock, bgRefresh>>

\* a page of contributors answers
PageResponse(p) ==
    LET c == call[p]
        contributors == UpstreamPage(c.upN, c.page, c.itemsNeeded)
        d == [c EXCEPT !.acc = @ \o contributors]
    IN
    /\ c.pc = "page"
    /\ IF ShortPage(Len(contributors), c.itemsNeeded)
       THEN call' = [call EXCEPT ![p] = [d EXCEPT !.pc = "done", !.result = Some(d.acc)]]
       ELSE call' = [call EXCEPT ![p] = LoopHead([d EXCEPT !.page = @ + 1])]
    /\ UNCHANGED <<config, failedRefresh, cache, tracker, clock, bgRefresh>>

\* the entry of the key dropped when the request fails
ResponseFails_Evicts(p, error) ==
    /\ call[p].pc \in {"inflight", "page"}
    /\ call' = [call EXCEPT ![p].pc = "failed",
                            ![p].thrown = Some(error),
                            ![p].err = Some(handleError(error, call[p].context))]
    /\ cache' = [k \in DOMAIN cache \ {call[p].key} |-> cache[k]]
    /\ UNCHANGED <<config, failedRefresh, tracker, clock, bgRefresh>>

\* the error of the transport passed on as it came
ResponseFails_Raw(p, error) ==
    /\ call[p].pc \in {"inflight", "page"}
    /\ call' = [call EXCEPT ![p].pc = "failed",
                            ![p].thrown = Some(error),
                            ![p].err = Some(error)]
    /\ UNCHANGED <<config, failedRefresh, cache, tracker, clock, bgRefresh>>

\* the request of any operation throws
ResponseFails(p, error) ==
    /\ call[p].pc \in {"inflight", "page"}
    /\ call' = [call EXCEPT ![p].pc = "failed",
                            ![p].thrown = Some(error),
                            ![p].err = Some(handleError(error, call[p].context))]
    /\ UNCHANGED <<config, failedRefresh, cache, tracker, clock, bgRefresh>>

\* getRateLimit(): never cached, never gated
getRateLimit(p) ==
    /\ call[p].pc = "idle"
    /\ call' = [call EXCEPT ![p] =
                  [IdleCall EXCEPT !.pc = "inflight", !.op = "getRateLimit",
                                   !.context = "Failed to fetch rate limit",
                                   !.nReq = 1]]
    /\ UNCHANGED <<config, failedRefresh, cache, tracker, clock, bgRefresh>>

\* the answer returned without the tracker being written
RateLimitResponse_ReadOnly(p, remaining, reset) ==
    /\ call[p].pc = "inflight"
    /\ call[p].op = "getRateLimit"
    /\ call' = [call EXCEPT ![p].pc = "done",
                            ![p].result = Some([remaining |-> remaining, reset |-> reset])]
    /\ UNCHANGED <<config, failedRefresh, cache, tracker, clock, bgRefresh>>

\* the request of getRateLimit answers: the tracker is written, the numbers returned
RateLimitResponse(p, remaining, reset) ==
    /\ call[p].pc = "inflight"
    /\ call[p].op = "getRateLimit"
    /\ rateLimitRemaining' = Some(remaining)
    /\ rateLimitReset' = Some(reset)
    /\ call' = [call EXCEPT ![p].pc = "done",
                            ![p].result = Some([remaining |-> remaining, reset |-> reset])]
    /\ UNCHANGED <<config, cache, clock, bgRefresh>>
    /\ failedRefresh' = "none"

\* the fire-and-forget updateRateLimit() answers
BgRefreshOk(remaining, reset) ==
    /\ bgRefresh > 0
    /\ bgRefresh' = bgRefresh - 1
    /\ rateLimitRemaining' = Some(remaining)
    /\ rateLimitReset' = Some(reset)
    /\ UNCHANGED <<config, cache, clock, call>>
    /\ failedRefresh' = "none"

\* the catch resetting the tracker to unset
BgRefreshFails_Clears ==
    /\ bgRefresh > 0
    /\ bgRefresh' = bgRefresh - 1
    /\ rateLimitRemaining' = Null
    /\ rateLimitReset' = Null
    /\ UNCHANGED <<config, cache, clock, call>>
    /\ failedRefresh' = "background"

\* the fire-and-forget updateRateLimit() fails: the catch logs it
BgRefreshFails ==
    /\ bgRefresh > 0
    /\ bgRefresh' = bgRefresh - 1
    /\ UNCHANGED <<config, cache, tracker, clock, call>>
    /\ failedRefresh' = "background"

\* the caller takes the outcome
Return(p) ==
    /\ call[p].pc \in {"done", "failed"}
    /\ call' = [call EXCEPT ![p] = IdleCall]
    /\ UNCHANGED <<config, failedRefresh, cache, tracker, clock, bgRefresh>>

Tick ==
    /\ clock + TickMs <= MaxClock
    /\ clock' = clock + TickMs
    /\ UNCHANGED <<config, failedRefresh, cache, tracker, call, bgRefresh>>

Next ==
    \/ \E p \in procs, u \in Users : getUser(p, u)
    \/ \E p \in procs, u \in Users, r \in Repos : getRepo(p, u, r)
    \/ \E p \in procs, u \in Users, n \in PerPageValues : getUserRepos(p, u, n)
    \/ \E p \in procs, u \in Users, r \in Repos, l \in SmallLimits, n \in SmallListings :
          getRepoContributors(p, u, r, l, n)
    \/ \E p \in procs : PageResponse(p)
    \/ \E p \in procs : getRateLimit(p)
    \/ \E p \in procs : Wake(p)
    \/ \E p \in procs, rem \in RemainingValues, rst \in ResetValues : RefreshOk(p, rem, rst)
    \/ \E p \in procs : RefreshFails(p)
    \/ \E p \in procs : \E d \in ResponseData(call[p]) : Response(p, d)
    \/ \E p \in procs, e \in TransportErrors : ResponseFails(p, e)
    \/ \E p \in procs, rem \in RemainingValues, rst \in ResetValues :
          RateLimitResponse(p, rem, rst)
    \/ \E rem \in RemainingValues, rst \in ResetValues : BgRefreshOk(rem, rst)
    \/ BgRefreshFails
    \/ \E p \in procs : Return(p)
    \/ Tick

Spec == Init /\ [][Next]_vars

\* getRepoContributors on its own, over limits and listings of several pages
NextPage ==
    \/ \E p \in procs, u \in Users, r \in Repos, l \in PageLimits, n \in PageListings :
          getRepoContributors(p, u, r, l, n)
    \/ \E p \in procs : PageResponse(p)
    \/ \E p \in procs, e \in TransportErrors : ResponseFails(p, e)
    \/ \E p \in procs : Return(p)

SpecPage == Init /\ [][NextPage]_vars

\* The timer fires and the transport answers: what the host's event loop and
\* the transport's own timeouts guarantee to a call that waits on them.
Callers == {1, 2}
WakeStep(p) == p \in procs /\ Wake(p)
RefreshStep(p) ==
    /\ p \in procs
    /\ \/ \E rem \in RemainingValues, rst \in ResetValues : RefreshOk(p, rem, rst)
       \/ RefreshFails(p)

FairSpec ==
    Spec /\ \A p \in Callers : WF_vars(WakeStep(p)) /\ WF_vars(RefreshStep(p))

\* ------------------------------------------------------------------ claims
CachedOps == {"getUser", "getRepo", "getUserRepos"}

\* caller p starts a cached operation in this step
StartsCached(p) ==
    call[p].pc = "idle" /\ call'[p].pc # "idle" /\ call'[p].op \in CachedOps

\* the entry of the key is there and the clock is before its expiry
Stored(k) == k \in DOMAIN cache /\ clock < cache[k].expiry

\* the step reaches the rate-limit gate: a cached operation that is not served
\* from the cache
StartsGated(p) == StartsCached(p) /\ ~(enableCache /\ Stored(call'[p].key))

ResetInFuture ==
    rateLimitReset # Null /\ clock < Val(rateLimitReset) * MsPerSecond

\* C1: with caching enabled, a withCache call for a key whose entry is stored
\* with now < expiry returns the stored value, issues no transport request,
\* does not consult the gate and leaves the tracker (and the cache) as they are,
\* whatever the tracker holds.
C1_CacheHitBypassesGate ==
    [][\A p \in procs :
         (StartsCached(p) /\ enableCache /\ Stored(call'[p].key)) =>
            /\ call'[p].pc = "done"
            /\ call'[p].result = Some(cache[call'[p].key].data)
            /\ call'[p].nReq = 0
            /\ call'[p].nGate = 0
            /\ call'[p].nRefresh = 0
            /\ call'[p].nSleep = 0
            /\ UNCHANGED <<tracker, cache, bgRefresh>>]_vars

\* a cache hit of getUserRepos while the quota is exhausted, the reset ahead and
\* the service configured to fail
C1_Witness ==
    \E p \in procs :
        /\ call[p].pc = "done" /\ call[p].op = "getUserRepos" /\ call[p].nGate = 0
        /\ failOnRateLimit /\ rateLimitThreshold >= 0
        /\ rateLimitRemaining = Some(0) /\ ResetInFuture

Returned(p) == Val(call[p].result)

ContributorsDone(p) ==
    call[p].pc = "done" /\ call[p].op = "getRepoContributors" /\ call[p].limit > 0

\* C2: for limit > 0 and an upstream listing of N items served with offset
\* semantics, getRepoContributors returns exactly min(limit, N) items.
C2_ReturnsMinLimitTotal ==
    \A p \in procs :
        ContributorsDone(p) => Len(Returned(p)) = Min(call[p].limit, call[p].upN)

NonIncreasing(n, items) ==
    \A i \in 1..(Len(items) - 1) :
        Contributions(n, items[i]) >= Contributions(n, items[i + 1])

\* C3: the upstream listing being in non-increasing order of contributions, the
\* returned list is in non-increasing order of contributions, for every limit > 0.
C3_ReturnedOrderDescending ==
    \A p \in procs : ContributorsDone(p) => NonIncreasing(call[p].upN, Returned(p))

\* C4: getRepoContributors never returns more than limit items, and returns
\* exactly limit items when the upstream listing has at least limit items.
C4_AtMostLimit ==
    \A p \in procs :
        ContributorsDone(p) =>
            /\ Len(Returned(p)) <= call[p].limit
            /\ call[p].upN >= call[p].limit => Len(Returned(p)) = call[p].limit

\* a call over two pages that returned exactly its limit
C4_Witness ==
    \E p \in procs :
        /\ ContributorsDone(p) /\ call[p].limit > MaxPerPage
        /\ call[p].upN >= call[p].limit /\ call[p].nReq = 2
        /\ Len(Returned(p)) = call[p].limit

\* C5: for limit <= 0, getRepoContributors issues no transport request, returns
\* the empty list and leaves the cache and the tracker unchanged.
C5_NonPositiveLimit ==
    [][\A p \in procs :
         (/\ call[p].pc = "idle" /\ call'[p].pc # "idle"
          /\ call'[p].op = "getRepoContributors" /\ call'[p].limit <= 0) =>
            /\ call'[p].pc = "done"
            /\ call'[p].result = Some(<<>>)
            /\ call'[p].nReq = 0
            /\ call'[p].nGate = 0
            /\ UNCHANGED <<cache, tracker, bgRefresh>>]_vars

\* the empty list returned for limit <= 0 with an entry cached and the tracker set
C5_Witness ==
    \E p \in procs :
        /\ call[p].pc = "done" /\ call[p].op = "getRepoContributors"
        /\ call[p].limit <= 0 /\ call[p].result = Some(<<>>)
        /\ DOMAIN cache # {} /\ rateLimitRemaining # Null

\* C6: the transport requests of one getRepoContributors call number at most
\* ceil(returned_items / pageSize), pageSize = min(100, limit).
C6_CallsAtMostCeilReturned ==
    \A p \in procs :
        ContributorsDone(p) =>
            call[p].nReq <= CeilDiv(Len(Returned(p)), Min(MaxPerPage, call[p].limit))

\* C6 as amended: at most floor(returned_items / pageSize) + 1 requests, and
\* never more than ceil(limit / pageSize).
C6_CallsAtMostFullPagesPlusOne ==
    \A p \in procs :
        ContributorsDone(p) =>
            LET pageSize == Min(MaxPerPage, call[p].limit) IN
            /\ call[p].nReq <= FloorDiv(Len(Returned(p)), pageSize) + 1
            /\ call[p].nReq <= CeilDiv(call[p].limit, pageSize)

\* a call whose second request found the listing exhausted
C6_Witness ==
    \E p \in procs :
        /\ ContributorsDone(p) /\ call[p].nReq = 2
        /\ Len(Returned(p)) = MaxPerPage /\ call[p].upN = MaxPerPage

\* C7: when a page answers fewer items than were asked for it, no further page
\* is requested and what has been collected, that page included, is returned;
\* 3 items answered for 5 asked are returned after exactly one request.
C7_ShortPageStops ==
    /\ [][\A p \in procs :
            (/\ call[p].pc = "page" /\ call'[p].pc \in {"page", "done"}
             /\ Len(call'[p].acc) - Len(call[p].acc) < call[p].itemsNeeded) =>
                /\ call'[p].pc = "done"
                /\ call'[p].nReq = call[p].nReq
                /\ call'[p].result = Some(call'[p].acc)
                /\ Len(call'[p].acc) < call[p].limit]_vars
    /\ [](\A p \in procs :
            (ContributorsDone(p) /\ call[p].limit = 5 /\ call[p].upN = 3) =>
                (Returned(p) = <<1, 2, 3>> /\ call[p].nReq = 1))

\* a second page answered short, and the list returned short of its limit
C7_Witness ==
    \E p \in procs :
        /\ ContributorsDone(p) /\ call[p].nReq = 2
        /\ call[p].upN > MaxPerPage /\ Len(Returned(p)) = call[p].upN
        /\ Len(Returned(p)) < call[p].limit

\* C8: with failOnRateLimit, a threshold >= 0, remaining = 0 and the reset in
\* the future, the next gated call fails at once with the rate-limit error: no
\* timer, no transport request.
C8_FailsImmediately ==
    [][\A p \in procs :
         (/\ StartsGated(p) /\ failOnRateLimit /\ rateLimitThreshold >= 0
          /\ rateLimitRemaining = Some(0) /\ ResetInFuture) =>
            /\ call'[p].pc = "failed"
            /\ call'[p].err # Null
            /\ Val(call'[p].err).cause.message =
                 "GitHub API rate limit exceeded. Resets in "
                   \o ToString(Val(rateLimitReset) - (clock \div MsPerSecond))
                   \o " seconds."
            /\ call'[p].nReq = 0
            /\ call'[p].nSleep = 0
            /\ call'[p].nRefresh = 0]_vars

\* a gated getRepo rejected by the gate
C8_Witness ==
    \E p \in procs :
        /\ call[p].pc = "failed" /\ call[p].op = "getRepo" /\ call[p].nGate = 1
        /\ call[p].nReq = 0 /\ failOnRateLimit
        /\ rateLimitRemaining = Some(0) /\ ResetInFuture

\* C9: without failOnRateLimit, with a threshold >= 0, remaining <= 0 and the
\* reset in the future, the next gated call suspends; its request is not issued
\* before the clock reaches reset + 1 second; once the clock is there the request
\* is eventually issued, with no failure and no second wait in between.
C9_WaitsThenProceeds ==
    /\ [][\A p \in procs :
            (/\ StartsGated(p) /\ ~failOnRateLimit /\ rateLimitThreshold >= 0
             /\ rateLimitRemaining # Null /\ Val(rateLimitRemaining) <= 0
             /\ ResetInFuture) =>
                /\ call'[p].pc = "sleeping"
                /\ call'[p].nReq = 0
                /\ call'[p].wakeAt >= (Val(rateLimitReset) + 1) * MsPerSecond]_vars
    /\ [][\A p \in procs :
            (call[p].pc \in {"sleeping", "refreshing"} /\ call[p].nSleep > 0) =>
                /\ call'[p].pc \in {"sleeping", "refreshing", "inflight"}
                /\ call'[p].nSleep = call[p].nSleep
                /\ call'[p].pc # "sleeping" => clock >= call[p].wakeAt
                /\ call'[p].nReq > 0 => call'[p].pc = "inflight"]_vars
    /\ \A p \in Callers :
          (p \in procs /\ call[p].pc = "sleeping" /\ clock >= call[p].wakeAt)
             ~> (p \in procs /\ call[p].pc = "inflight" /\ call[p].nReq = 1)

\* the request issued after the wait
C9_Witness ==
    \E p \in procs :
        /\ call[p].pc = "inflight" /\ call[p].nSleep = 1 /\ call[p].nReq = 1
        /\ clock >= call[p].wakeAt /\ ~failOnRateLimit

\* C10: remaining unset, or above the threshold: the gate lets the call through
\* at once, with no timer, no failure, no rate-limit request and the tracker
\* unchanged, whatever reset and failOnRateLimit are.
C10_GateSkips ==
    [][\A p \in procs :
         (/\ StartsGated(p)
          /\ \/ rateLimitRemaining = Null
             \/ Val(rateLimitRemaining) > rateLimitThreshold) =>
            /\ call'[p].pc = "inflight"
            /\ call'[p].nGate = 1
            /\ call'[p].nReq = 1
            /\ call'[p].nSleep = 0
            /\ call'[p].nRefresh = 0
            /\ UNCHANGED <<tracker, bgRefresh>>]_vars

\* the gate passed with remaining above the threshold, the reset ahead and the
\* service configured to fail
C10_Witness ==
    \E p \in procs :
        /\ call[p].pc = "inflight" /\ call[p].nGate = 1 /\ call[p].nRefresh = 0
        /\ rateLimitRemaining # Null /\ Val(rateLimitRemaining) > rateLimitThreshold
        /\ rateLimitThreshold >= 0 /\ failOnRateLimit /\ ResetInFuture

GatedOps == CachedOps \cup {"getRepoContributors"}

\* C11: the rate-limit gate is consulted before every outbound request of a
\* public operation: each request of getUser, getRepo and getUserRepos and each
\* page request of getRepoContributors is preceded by a checkRateLimit
\* evaluation of its own, so an operation never has more requests issued than
\* gate evaluations made.
C11_GateBeforeEveryRequest ==
    \A p \in procs :
        call[p].op \in GatedOps => call[p].nGate >= call[p].nReq

\* caller p's own request answers with success in this step
RequestCompletes(p) ==
    \/ call[p].op \in CachedOps /\ call[p].pc = "inflight" /\ call'[p].pc = "done"
    \/ /\ call[p].op = "getRepoContributors" /\ call[p].pc = "page"
       /\ call'[p].pc \in {"page", "done"}
       /\ call'[p] # call[p]

\* C12: after every completed outbound request of a public operation (getUser,
\* getRepo, getUserRepos, or a page request of getRepoContributors): a set
\* remaining becomes max(0, remaining - 1), and an unset one stays unset while a
\* fire-and-forget refresh is started.
C12_BookkeepingAfterEveryCall ==
    [][\A p \in procs :
         RequestCompletes(p) =>
            IF rateLimitRemaining = Null
            THEN rateLimitRemaining' = Null /\ bgRefresh' = bgRefresh + 1
            ELSE rateLimitRemaining' = Some(Max(0, Val(rateLimitRemaining) - 1))]_vars

\* a rate-limit-status request answers with success in this step: getRateLimit
\* called by the caller, by the gate's updateRateLimit or by a fire-and-forget
\* updateRateLimit
RateLimitStatusSucceeds ==
    \/ \E p \in procs :
          /\ call[p].op = "getRateLimit"
          /\ call[p].pc = "inflight" /\ call'[p].pc = "done"
    \/ \E p \in procs :
          /\ call[p].pc = "refreshing" /\ call'[p].pc = "inflight"
          /\ failedRefresh' = "none"
    \/ bgRefresh' = bgRefresh - 1 /\ failedRefresh' = "none"

\* C13: once remaining is set it stays set, and no step raises it except the
\* successful completion of a rate-limit-status request (getRateLimit, called
\* directly or by updateRateLimit); every other step leaves it equal or lower,
\* fire-and-forget refreshes in flight or not.
C13_RemainingNeverIncreases ==
    [][rateLimitRemaining # Null =>
         /\ rateLimitRemaining' # Null
         /\ Val(rateLimitRemaining') > Val(rateLimitRemaining) =>
               RateLimitStatusSucceeds]_vars

\* a cached operation has returned after a request that lowered a set
\* remaining, while a fire-and-forget refresh is still in flight
C13_Witness ==
    \E p \in procs :
        /\ call[p].pc = "done" /\ call[p].op \in CachedOps /\ call[p].nReq = 1
        /\ rateLimitRemaining # Null
        /\ Val(rateLimitRemaining) < MaxRemaining
        /\ bgRefresh > 0

\* the rate-limit request of an updateRateLimit awaited by caller p's gate
\* fails in this step
InlineRefreshFails(p) ==
    call[p].pc = "refreshing" /\ call'[p].pc # "refreshing" /\ failedRefresh' = "inline"

\* the rate-limit request of a fire-and-forget updateRateLimit fails in this step
BackgroundRefreshFails ==
    bgRefresh' = bgRefresh - 1 /\ failedRefresh' = "background"

\* C14: a failed rate-limit refresh never fails the operation that triggered
\* it. When the gate's refresh fails the operation goes on to issue its own
\* request; when a fire-and-forget refresh fails no operation is touched; and an
\* operation whose request is out ends with that request's answer: its result,
\* or the error of that request and no other.
C14_RefreshFailureNotEscalated ==
    [][/\ \A p \in procs :
             InlineRefreshFails(p) =>
                /\ call'[p].pc = "inflight"
                /\ call'[p].err = Null
                /\ call'[p].nReq = call[p].nReq + 1
       /\ BackgroundRefreshFails => call' = call
       /\ \A p \in procs :
             (call[p].pc = "inflight" /\ call'[p].pc # "inflight") =>
                \/ call'[p].pc = "done" /\ call'[p].result # Null
                \/ /\ call'[p].pc = "failed"
                   /\ \E e \in TransportErrors :
                         call'[p].err = Some(handleError(e, call[p].context))]_vars

\* a cached operation has returned its result after the refresh of its gate
\* failed
C14_Witness ==
    \E p \in procs :
        /\ call[p].pc = "done" /\ call[p].op \in CachedOps
        /\ call[p].nRefresh = 1 /\ call[p].nReq = 1
        /\ call[p].result # Null
        /\ failedRefresh = "inline"

\* C15: after a rate-limit refresh fails the tracker is unknown: remaining and
\* reset are unset, whatever they held before (and they stay so until a
\* rate-limit-status request succeeds).
C15_TrackerUnknownAfterFailedRefresh ==
    failedRefresh # "none" => rateLimitRemaining = Null /\ rateLimitReset = Null

\* C15, as the code has it: a failed rate-limit refresh, awaited by the gate or
\* fire-and-forget, leaves remaining and reset exactly as they were before it,
\* set (and stale) or unset.
C15_FailedRefreshLeavesTracker ==
    [][((\E p \in procs : InlineRefreshFails(p)) \/ BackgroundRefreshFails) =>
          UNCHANGED tracker]_vars

\* the refresh of a gate has failed and the tracker still holds the values that
\* made the gate refresh
C15_Witness ==
    \E p \in procs :
        /\ call[p].pc = "inflight" /\ call[p].nRefresh = 1
        /\ failedRefresh = "inline"
        /\ rateLimitRemaining # Null /\ rateLimitReset # Null
        /\ Val(rateLimitRemaining) <= rateLimitThreshold

\* caller p's cached operation issues its own request in this step
IssuesRequest(p) ==
    /\ call'[p].op \in CachedOps
    /\ call'[p].pc = "inflight"
    /\ call[p].pc # "inflight"

\* C16: after a rate-limit refresh fails, the next gated call that reaches the
\* transport issues another rate-limit refresh request, provided no
\* rate-limit-status request succeeded in between: by the time its request
\* goes out it has asked for a refresh, or remaining is unset (and a
\* fire-and-forget refresh follows its answer).
C16_NextCallRefreshesAgain ==
    [][\A p \in procs :
         (IssuesRequest(p) /\ failedRefresh # "none") =>
            call'[p].nRefresh >= 1 \/ rateLimitRemaining = Null]_vars

\* caller p's gate decides in this step what the call does next: on entering
\* executeWithRateLimitProtection, or when its timer has fired
GateDecides(p) ==
    \/ call[p].pc = "idle" /\ call'[p].op \in CachedOps /\ call'[p].nGate = 1
    \/ call[p].pc = "sleeping" /\ call'[p].pc # "sleeping"

\* C16, as the code has it: a gated call whose gate decides after a failed
\* refresh, with no rate-limit-status success and no gated request in between,
\* asks for a refresh before its own request only if remaining is then set at
\* or below the threshold, and issues its request with no refresh before it
\* exactly when remaining is unset or above the threshold (set above it by a
\* rate-limit-status answer that came in while the failed refresh was in
\* flight). With remaining unset a fire-and-forget refresh follows the
\* request's successful answer, and none follows its failure.
C16_RefreshAgainWhenLow ==
    [][\A p \in procs :
         /\ (GateDecides(p) /\ failedRefresh # "none") =>
               /\ call'[p].pc \in {"inflight", "refreshing", "sleeping", "failed"}
               /\ call'[p].pc = "refreshing" =>
                     /\ rateLimitRemaining # Null
                     /\ Val(rateLimitRemaining) <= rateLimitThreshold
               /\ call'[p].pc = "inflight" <=>
                     \/ rateLimitRemaining = Null
                     \/ Val(rateLimitRemaining) > rateLimitThreshold
         /\ (call[p].op \in CachedOps /\ call[p].pc = "inflight"
               /\ call'[p].pc # "inflight") =>
               bgRefresh' = IF rateLimitRemaining = Null /\ call'[p].pc = "done"
                            THEN bgRefresh + 1 ELSE bgRefresh]_vars

\* a gated call waits for the refresh of its own gate while the failed refresh
\* of the gate of the call before it is the last thing known
C16_Witness ==
    \E p \in procs :
        /\ call[p].pc = "refreshing" /\ call[p].op \in CachedOps
        /\ call[p].nRefresh = 1
        /\ failedRefresh = "inline"

\* C17: getRateLimit always issues a transport request and neither reads nor
\* writes the cache, caching enabled or not; when the request succeeds the
\* tracker's remaining and reset become the returned values whatever they were,
\* and when it fails they are left as they were.
C17_GetRateLimitAuthoritative ==
    [][\A p \in procs :
         /\ (call[p].pc = "idle" /\ call'[p].op = "getRateLimit") =>
               /\ call'[p].pc = "inflight"
               /\ call'[p].nReq = 1
               /\ UNCHANGED <<cache, tracker>>
         /\ (call[p].op = "getRateLimit" /\ call[p].pc = "inflight"
               /\ call'[p].pc = "done") =>
               /\ rateLimitRemaining' = Some(Val(call'[p].result).remaining)
               /\ rateLimitReset' = Some(Val(call'[p].result).reset)
               /\ UNCHANGED cache
         /\ (call[p].op = "getRateLimit" /\ call[p].pc = "inflight"
               /\ call'[p].pc = "failed") =>
               UNCHANGED <<cache, tracker>>]_vars

\* getRateLimit has returned, with caching enabled and an entry stored, numbers
\* that the tracker now holds
C17_Witness ==
    \E p \in procs :
        /\ call[p].pc = "done" /\ call[p].op = "getRateLimit" /\ call[p].nReq = 1
        /\ enableCache /\ DOMAIN cache # {}
        /\ rateLimitRemaining = Some(Val(call[p].result).remaining)
        /\ Val(call[p].result).remaining = MaxRemaining

\* C18: withCache returns a value from the cache only if the clock at the
\* lookup is strictly before the entry's expiry; an entry whose expiry is at or
\* before the clock is never returned (the call goes to the gate instead), for
\* every cacheTtl, 0 included.
C18_NeverReturnedPastExpiry ==
    [][\A p \in procs :
         StartsCached(p) =>
            LET key == call'[p].key IN
            /\ call'[p].pc = "done" =>
                  /\ enableCache
                  /\ key \in DOMAIN cache
                  /\ clock < cache[key].expiry
                  /\ call'[p].result = Some(cache[key].data)
            /\ (key \in DOMAIN cache /\ cache[key].expiry <= clock) =>
                  /\ call'[p].pc # "done"
                  /\ call'[p].result = Null
                  /\ call'[p].nGate = 1]_vars

\* a lookup made at the very instant the entry expires has gone to the gate
C18_Witness ==
    \E p \in procs :
        /\ call[p].op \in CachedOps /\ call[p].nGate = 1
        /\ call[p].cached # Null
        /\ Val(call[p].cached).expiry = call[p].now

\* C19: with caching enabled, a lookup of a key made at or after the stored
\* entry's expiry goes to the producer again (through the gate); when the
\* producer succeeds the entry of the key is overwritten with the new value and
\* a new expiry (the clock of the lookup plus cacheTtl), the other entries
\* staying as they are; and a following lookup before the new expiry returns
\* the stored value without a request.
C19_ExpiredEntryRefetched ==
    [][\A p \in procs :
         /\ (StartsCached(p) /\ enableCache /\ call'[p].key \in DOMAIN cache) =>
               LET entry == cache[call'[p].key] IN
               IF clock >= entry.expiry
               THEN call'[p].nGate = 1 /\ call'[p].result = Null
               ELSE call'[p].result = Some(entry.data) /\ call'[p].nReq = 0
         /\ (enableCache /\ call[p].op \in CachedOps /\ call[p].pc = "inflight"
               /\ call'[p].pc = "done") =>
               /\ DOMAIN cache' = DOMAIN cache \cup {call[p].key}
               /\ \A k \in DOMAIN cache' :
                     cache'[k] =
                        IF k = call[p].key
                        THEN [data |-> Val(call'[p].result),
                              expiry |-> call[p].now + cacheTtl]
                        ELSE cache[k]]_vars

\* a lookup that found an expired entry has returned another value than the
\* entry held, and the entry now holds that value and an expiry still ahead
C19_Witness ==
    \E p \in procs :
        /\ call[p].pc = "done" /\ call[p].op \in CachedOps /\ call[p].nReq = 1
        /\ call[p].cached # Null
        /\ Val(call[p].cached).expiry <= call[p].now
        /\ Val(call[p].cached).data # Val(call[p].result)
        /\ cache[call[p].key].data = Val(call[p].result)
        /\ cache[call[p].key].expiry > Val(call[p].cached).expiry
        /\ clock < cache[call[p].key].expiry

\* ------------------------------------------------------ overlapping callers
\* Two callers share one service with caching enabled: their operations
\* interleave at every suspension.
InitConc ==
    /\ enableCache = TRUE
    /\ cacheTtl \in {s * MsPerSecond : s \in CacheTtlSeconds}
    /\ rateLimitThreshold \in Thresholds
    /\ failOnRateLimit \in BOOLEAN
    /\ cache = [k \in {} |-> 0]
    /\ rateLimitRemaining = Null
    /\ rateLimitReset = Null
    /\ clock = 0
    /\ procs = Callers
    /\ call = [p \in procs |-> IdleCall]
    /\ bgRefresh = 0
    /\ failedRefresh = "none"
    /\ Embedded

\* the transport errors that carry no HTTP response
NetworkErrors == {e \in TransportErrors : e.isError /\ e.status = Null}

\* getUser from both callers, with everything the gate can do to it
NextConc ==
    \/ \E p \in procs, u \in Users : getUser(p, u)
    \/ \E p \in procs : Wake(p)
    \/ \E p \in procs, rem \in RemainingValues, rst \in ResetValues : RefreshOk(p, rem, rst)
    \/ \E p \in procs : RefreshFails(p)
    \/ \E p \in procs : \E d \in ResponseData(call[p]) : Response(p, d)
    \/ \E p \in procs, e \in NetworkErrors : ResponseFails(p, e)
    \/ \E rem \in RemainingValues, rst \in ResetValues : BgRefreshOk(rem, rst)
    \/ BgRefreshFails
    \/ \E p \in procs : Return(p)
    \/ Tick

SpecConc == InitConc /\ [][NextConc]_vars

\* caller q has a producer under way for the key
ProducerUnderWay(q, key) ==
    call[q].key = key /\ call[q].pc \in {"sleeping", "refreshing", "inflight"}

\* C20: two overlapping calls for the same uncached or expired key are not
\* deduplicated. A call that starts while another caller's producer for the key
\* is under way goes through the gate to a request of its own and leaves the
\* other call as it is; every call that completes has made its own request and
\* writes the value it returns into the entry, whatever the entry held; and
\* nothing else writes the cache. So after both have completed the entry holds
\* the value of the one that finished last.
C20_LastWriterWins ==
    [][/\ \A p \in procs :
             /\ (/\ StartsCached(p)
                 /\ ~(call'[p].key \in DOMAIN cache
                        /\ clock < cache[call'[p].key].expiry)
                 /\ \E q \in procs \ {p} : ProducerUnderWay(q, call'[p].key)) =>
                   /\ call'[p].nGate = 1
                   /\ call'[p].result = Null
                   /\ \A q \in procs \ {p} : call'[q] = call[q]
             /\ (call[p].op \in CachedOps /\ call[p].pc = "inflight"
                   /\ call'[p].pc = "done") =>
                   /\ call[p].nReq = 1
                   /\ cache'[call[p].key].data = Val(call'[p].result)
       /\ cache' # cache =>
             \E p \in procs :
                /\ call[p].op \in CachedOps
                /\ call[p].pc = "inflight" /\ call'[p].pc = "done"]_vars

\* both callers looked the key up while nothing was stored, both made their own
\* request, they returned different values, and the entry holds one of them
C20_Witness ==
    /\ \A p \in Callers :
          /\ p \in procs
          /\ call[p].pc = "done" /\ call[p].op = "getUser"
          /\ call[p].cached = Null /\ call[p].nReq = 1
    /\ call[1].key = call[2].key
    /\ call[1].result # call[2].result
    /\ cache[call[1].key].data \in {Val(call[1].result), Val(call[2].result)}

\* the context strings of a public operation, over its target identifiers
OperationContexts(op) ==
    CASE op = "getUser" -> {"Failed to fetch user " \o u : u \in Users}
      [] op = "getRepo" ->
           {"Failed to fetch repository " \o o \o "/" \o r : o \in Users, r \in Repos}
      [] op = "getUserRepos" ->
           {"Failed to fetch repositories for user " \o u : u \in Users}
      [] op = "getRepoContributors" ->
           {"Failed to fetch contributors for repository " \o o \o "/" \o r :
               o \in Users, r \in Repos}
      [] op = "getRateLimit" -> {"Failed to fetch rate limit"}
      [] OTHER -> {}

\* what a normalized message can carry after the context
MessageTails ==
    {": " \o e.message : e \in TransportErrors \cup {UnknownError}}

\* C21: when a transport failure that carries an HTTP response status s occurs
\* inside a public operation, the error the caller gets has status s and a
\* message that starts with the operation's context string (the operation with
\* its target identifiers).
C21_StatusAndContextKept ==
    \A p \in procs :
        (/\ call[p].pc = "failed"
         /\ Val(call[p].thrown).isError
         /\ Val(call[p].thrown).status # Null) =>
            /\ Val(call[p].err).status = Val(call[p].thrown).status
            /\ \E context \in OperationContexts(call[p].op), tail \in MessageTails :
                  Val(call[p].err).message = context \o tail

\* a page request of getRepoContributors has failed with a 404 that the caller
\* now holds
C21_Witness ==
    \E p \in procs :
        /\ call[p].pc = "failed" /\ call[p].op = "getRepoContributors"
        /\ Val(call[p].thrown).status = Some(404)
        /\ Val(call[p].err).status = Some(404)

\* e is an error as handleError throws it
IsNormalized(e) ==
    /\ "name" \in DOMAIN e
    /\ e.name = "GitHubServiceError"

\* C22: every failure of a public operation (a transport failure, the gate's
\* rate-limit error, a thrown value that is no error) reaches the caller as
\* exactly one normalized error: a failed operation holds no value, its error is
\* normalized and wraps the raw failure itself, never an error that was
\* normalized before; and an operation that returns a value holds no error.
C22_NormalizedExactlyOnce ==
    \A p \in procs :
        /\ call[p].pc = "failed" =>
              /\ call[p].result = Null
              /\ call[p].thrown # Null /\ call[p].err # Null
              /\ IsNormalized(Val(call[p].err))
              /\ ~IsNormalized(Val(call[p].thrown))
              /\ ~IsNormalized(Val(call[p].err).cause)
              /\ Val(call[p].err).cause \in {Val(call[p].thrown), UnknownError}
        /\ call[p].pc # "failed" => call[p].err = Null /\ call[p].thrown = Null

\* the gate's rate-limit error has reached a caller, normalized, before any
\* request
C22_Witness ==
    \E p \in procs :
        /\ call[p].pc = "failed" /\ call[p].nReq = 0 /\ call[p].nGate = 1
        /\ IsNormalized(Val(call[p].err))
        /\ Val(call[p].err).cause = Val(call[p].thrown)

\* C23: the normalized error's message is always "<context>: <underlying
\* message>": for an error object the underlying message is that error's
\* message verbatim and the error is kept as cause; for a thrown value that is
\* no error object it is the fixed text of an unknown error.
C23_MessageShape ==
    \A p \in procs :
        call[p].pc = "failed" =>
            LET thrown == Val(call[p].thrown)
                e == Val(call[p].err)
            IN  /\ e.context = call[p].context
                /\ IF thrown.isError
                   THEN /\ e.message = call[p].context \o ": " \o thrown.message
                        /\ e.cause = thrown
                   ELSE /\ e.message =
                             call[p].context \o ": " \o "An unknown error occurred"
                        /\ e.cause.message = "An unknown error occurred"

\* a value that is no error object was thrown into an operation and has reached
\* the caller under the fixed text
C23_Witness ==
    \E p \in procs :
        /\ call[p].pc = "failed"
        /\ ~Val(call[p].thrown).isError
        /\ Val(call[p].err).message =
              call[p].context \o ": An unknown error occurred"

\* the failure carries a response whose body has a message of its own
HasBodyMessage(p) ==
    /\ call[p].pc = "failed"
    /\ Val(call[p].thrown).isError
    /\ Val(call[p].thrown).status # Null
    /\ Val(call[p].thrown).bodyMessage # ""

\* C24: when the underlying failure carries an HTTP response whose body has a
\* human-readable message field, the normalized error's message uses that body
\* message rather than the transport error's own message.
C24_BodyMessagePreferred ==
    \A p \in procs :
        HasBodyMessage(p) =>
            Val(call[p].err).message =
                call[p].context \o ": " \o Val(call[p].thrown).bodyMessage

\* C24, as the code has it: the normalized error's message is built from the
\* error object's own message, with or without a message in the response body;
\* the body is not read.
C24_OwnMessageUsed ==
    \A p \in procs :
        HasBodyMessage(p) =>
            /\ Val(call[p].err).message =
                  call[p].context \o ": " \o Val(call[p].thrown).message
            /\ Val(call[p].thrown).bodyMessage # Val(call[p].thrown).message =>
                  Val(call[p].err).message #
                     call[p].context \o ": " \o Val(call[p].thrown).bodyMessage

\* a failure whose response body says something else than the error's own
\* message has reached the caller
C24_Witness ==
    \E p \in procs :
        /\ HasBodyMessage(p)
        /\ Val(call[p].thrown).bodyMessage # Val(call[p].thrown).message
        /\ Val(call[p].err).status = Some(404)

\* C28: getUserRepos(username, per_page) returns at most per_page repositories
\* (the upstream answering with at most per_page items), after any earlier
\* sequence of calls on the same service, also with caching enabled and earlier
\* getUserRepos calls for the same username with another per_page.
C28_AtMostPerPage ==
    \A p \in procs :
        (call[p].pc = "done" /\ call[p].op = "getUserRepos") =>
            Val(call[p].result) <= call[p].perPage

\* ------------------------------------------------------- the wait for reset
\* the reset instants a rate-limit answer can carry: one that has passed when a
\* waiting call wakes, and one that is still ahead then
LateResets == {1, 3}

\* getUser from one caller against a quota that can be exhausted again when the
\* call wakes
NextWait ==
    \/ \E p \in procs, u \in Users : getUser(p, u)
    \/ \E p \in procs : getRateLimit(p)
    \/ \E p \in procs, rem \in RemainingValues, rst \in LateResets :
          RateLimitResponse(p, rem, rst)
    \/ \E p \in procs : Wake(p)
    \/ \E p \in procs, rem \in RemainingValues, rst \in LateResets : RefreshOk(p, rem, rst)
    \/ \E p \in procs : RefreshFails(p)
    \/ \E p \in procs : \E d \in ResponseData(call[p]) : Response(p, d)
    \/ \E p \in procs, e \in NetworkErrors : ResponseFails(p, e)
    \/ \E rem \in RemainingValues, rst \in LateResets : BgRefreshOk(rem, rst)
    \/ BgRefreshFails
    \/ \E p \in procs : Return(p)
    \/ Tick

SpecWait == Init /\ [][NextWait]_vars

\* C29: a gated call waits for a rate-limit reset at most once. After the wait
\* (and the refresh the gate then asks for) it issues its request, exactly one,
\* whatever the refreshed tracker says, remaining 0 with a reset ahead
\* included; and when that request fails the call fails with that error: no
\* further wait, no second request.
C29_WaitsAtMostOnce ==
    [][\A p \in procs :
         /\ call'[p].nSleep <= 1
         /\ call'[p].op \in CachedOps => call'[p].nReq <= 1
         /\ (call[p].nSleep = 1 /\ call'[p].pc # call[p].pc) =>
               CASE call[p].pc = "sleeping" ->
                      call'[p].pc \in {"refreshing", "inflight"}
                 [] call[p].pc = "refreshing" ->
                      call'[p].pc = "inflight" /\ call'[p].nReq = 1
                 [] call[p].pc = "inflight" ->
                      \/ call'[p].pc = "done"
                      \/ /\ call'[p].pc = "failed"
                         /\ call'[p].err =
                               Some(handleError(Val(call'[p].thrown), call[p].context))
                         /\ call'[p].nSleep = 1 /\ call'[p].nReq = 1
                 [] OTHER -> call'[p].pc = "idle"]_vars

\* a call that has waited has its request out although the refreshed tracker
\* says remaining 0 with the reset still ahead
C29_Witness ==
    \E p \in procs :
        /\ call[p].pc = "inflight" /\ call[p].nSleep = 1 /\ call[p].nReq = 1
        /\ rateLimitRemaining = Some(0)
        /\ ResetInFuture

\* the requests a caller's operation has out and awaits: its own request, or
\* the rate-limit request of its gate
OwnInFlight ==
    Cardinality({p \in procs : call[p].pc \in {"inflight", "page", "refreshing"}})

\* all the outbound requests that are out
InFlight == OwnInFlight + bgRefresh

\* C30: when public operations are invoked strictly one after another on one
\* service (each awaited to completion before the next starts), at most one
\* outbound request is in flight at any time.
C30_OneRequestInFlight == InFlight <= 1

\* C30, as the code has it: with operations invoked one after another, at most
\* one request that an operation awaits is in flight (its gate's refresh comes
\* before its own request, and page k of the contributors is asked once the
\* pages before it have answered); every other request in flight is a
\* fire-and-forget refresh, and one is started only by the successful answer of
\* a gated request while remaining is unset.
C30_OneAwaitedRequestInFlight ==
    [][/\ OwnInFlight' <= 1
       /\ \A p \in procs :
             /\ call'[p].pc = "refreshing" => call'[p].nReq = 0
             /\ call'[p].pc = "page" => call'[p].nReq = call'[p].page
             /\ call'[p].pc = "inflight" => call'[p].nReq = 1
       /\ bgRefresh' > bgRefresh =>
             /\ bgRefresh' = bgRefresh + 1
             /\ rateLimitRemaining = Null
             /\ \E p \in procs : call[p].op \in CachedOps /\ RequestCompletes(p)]_vars

\* the request of an operation is out while the fire-and-forget refresh started
\* by the operation before it is still unanswered
C30_Witness ==
    /\ procs = {1}
    /\ call[1].pc = "inflight" /\ call[1].op \in CachedOps
    /\ bgRefresh >= 1
    /\ InFlight >= 2

\* ----------------------------------------------- construction, then getUser
\* A program reads its environment, constructs the service with some options
\* and, if that returned, calls getUser on it.
InitBoot ==
    /\ env \in EnvTokens
    /\ service = Unbuilt
    /\ main = NotRun(<<>>)
    /\ upstream = Quiet
    /\ enableCache = FALSE
    /\ cacheTtl = 0
    /\ rateLimitThreshold = 0
    /\ failOnRateLimit = FALSE
    /\ cache = [k \in {} |-> 0]
    /\ rateLimitRemaining = Null
    /\ rateLimitReset = Null
    /\ clock = 0
    /\ procs = {1}
    /\ call = [p \in procs |-> IdleCall]
    /\ bgRefresh = 0
    /\ failedRefresh = "none"

\* new GitHubService(options) in a program that is not the CLI
New(options) == constructor(options) /\ UNCHANGED main

\* there is an instance to call
Built == service.state = "built"

NextBoot ==
    \/ \E o \in OptionSets : New(o)
    \/ Built /\ \E p \in procs, u \in Users : getUser(p, u)
    \/ Built /\ \E p \in procs : Wake(p)
    \/ Built /\ \E p \in procs, rem \in RemainingValues, rst \in ResetValues :
                   RefreshOk(p, rem, rst)
    \/ Built /\ \E p \in procs : RefreshFails(p)
    \/ Built /\ \E p \in procs : \E d \in ResponseData(call[p]) : Response(p, d)
    \/ Built /\ \E p \in procs, e \in NetworkErrors : ResponseFails(p, e)
    \/ Built /\ \E rem \in RemainingValues, rst \in ResetValues : BgRefreshOk(rem, rst)
    \/ Built /\ BgRefreshFails
    \/ Built /\ \E p \in procs : Return(p)
    \/ Tick

SpecBoot == InitBoot /\ [][NextBoot]_vars

\* no request has been made on behalf of this program
NoTransportCall ==
    /\ bgRefresh = 0
    /\ \A p \in procs : call[p] = IdleCall

C26_TokenOptional ==
    (env = Null /\ service.options.token = Null /\ service.state # "unbuilt") =>
        service.state = "built"

\* ------------------------------------------------------------------ the CLI
\* process.argv.slice(2) of the runs considered
ArgVectors ==
    { <<>>,
      <<"user">>, <<"user", "">>, <<"user", "octocat">>,
      <<"repo">>, <<"repo", "octocat">>, <<"repo", "octocat", "Hello-World">>,
      <<"repos">>, <<"repos", "octocat">>, <<"repos", "octocat", "2">>,
      <<"contributors", "octocat">>, <<"contributors", "octocat", "Hello-World">>,
      <<"contributors", "octocat", "Hello-World", "2">>,
      <<"rate">>, <<"stars", "octocat">> }

\* args[i], counted from 0 as the code does
Arg(args, i) == IF i + 1 <= Len(args) THEN Some(args[i + 1]) ELSE Null

\* parseInt(s, 10) of a decimal numeral
parseInt(s) == CHOOSE n \in 0..MaxPerPage : ToString(n) = s

\* [limit], or its default
LimitArg(args, i) ==
    IF Falsy(Arg(args, i)) THEN DefaultLimit ELSE parseInt(Val(Arg(args, i)))

Commands == {"user", "repo", "repos", "contributors", "rate"}

\* the arguments a command tests before it calls the service
RequiredArgs(command) ==
    CASE command \in {"user", "repos"} -> {1}
      [] command \in {"repo", "contributors"} -> {1, 2}
      [] OTHER -> {}

NoArguments == Len(main.args) = 0
UnknownCommand == ~NoArguments /\ main.args[1] \notin Commands
MissingArgument ==
    /\ ~NoArguments
    /\ \E i \in RequiredArgs(main.args[1]) : Falsy(Arg(main.args, i))

\* the caller that main() is
MainProc == 1

InitCli ==
    /\ env \in EnvTokens
    /\ service = Unbuilt
    /\ main \in {NotRun(args) : args \in ArgVectors}
    /\ upstream = Quiet
    /\ enableCache = FALSE
    /\ cacheTtl = 0
    /\ rateLimitThreshold = 0
    /\ failOnRateLimit = FALSE
    /\ cache = [k \in {} |-> 0]
    /\ rateLimitRemaining = Null
    /\ rateLimitReset = Null
    /\ clock = 0
    /\ procs = {MainProc}
    /\ call = [p \in procs |-> IdleCall]
    /\ bgRefresh = 0
    /\ failedRefresh = "none"

\* process.exit(code)
Exit(code) == main' = [main EXCEPT !.pc = "exited", !.exit = Some(code)]

\* main() from its start: the usage text and exit 1 without arguments, else
\* new GitHubService(). That call stands outside the try: when it throws, the
\* promise of main() rejects, nothing handles the rejection and the runtime ends
\* the process with code 1.
MainStart ==
    /\ main.pc = "start"
    /\ IF NoArguments
       THEN /\ Exit(1)
            /\ UNCHANGED <<enableCache, cacheTtl, rateLimitThreshold, failOnRateLimit,
                           cache, tracker, clock, procs, call, bgRefresh, failedRefresh,
                           env, service, upstream>>
       ELSE /\ constructor(NoOptions)
            /\ IF service'.state = "threw"
               THEN Exit(1)
               ELSE main' = [main EXCEPT !.pc = "constructed"]

\* the switch ends the process: a required argument is missing, or the
\* command is none of the five
MainReject ==
    /\ main.pc = "constructed"
    /\ call[MainProc].pc = "idle"
    /\ MissingArgument \/ UnknownCommand
    /\ Exit(1)
    /\ UNCHANGED <<enableCache, cacheTtl, rateLimitThreshold, failOnRateLimit,
                   cache, tracker, clock, procs, call, bgRefresh, failedRefresh,
                   env, service, upstream>>

\* the switch calls the operation of the command; n is the size of the
\* upstream contributors listing
MainInvoke(n) ==
    LET args == main.args IN
    /\ main.pc = "constructed"
    /\ call[MainProc].pc = "idle"
    /\ ~MissingArgument /\ ~UnknownCommand
    /\ CASE args[1] = "user" -> getUser(MainProc, args[2])
         [] args[1] = "repo" -> getRepo(MainProc, args[2], args[3])
         [] args[1] = "repos" -> getUserRepos(MainProc, args[2], LimitArg(args, 2))
         [] args[1] = "contributors" ->
              getRepoContributors(MainProc, args[2], args[3], LimitArg(args, 3), n)
         [] args[1] = "rate" -> getRateLimit(MainProc)

\* the catch of main() leaving the process to end by itself
MainExit_Swallow ==
    /\ main.pc = "constructed"
    /\ call[MainProc].pc \in {"done", "failed"}
    /\ main' = [main EXCEPT !.pc = "returned", !.exit = Some(0)]
    /\ UNCHANGED <<enableCache, cacheTtl, rateLimitThreshold, failOnRateLimit,
                   cache, tracker, clock, procs, call, bgRefresh, failedRefresh,
                   env, service, upstream>>

\* the awaited operation settles: main() prints and returns, and the process
\* ends with code 0 once nothing is pending; or the catch prints the error and
\* calls process.exit(1)
MainExit ==
    /\ main.pc = "constructed"
    /\ call[MainProc].pc \in {"done", "failed"}
    /\ IF call[MainProc].pc = "done"
       THEN main' = [main EXCEPT !.pc = "returned", !.exit = Some(0)]
       ELSE Exit(1)
    /\ UNCHANGED <<enableCache, cacheTtl, rateLimitThreshold, failOnRateLimit,
                   cache, tracker, clock, procs, call, bgRefresh, failedRefresh,
                   env, service, upstream>>

\* the process has not ended
Alive == main.pc \in {"constructed", "returned"}

NextCli ==
    \/ MainStart
    \/ MainReject
    \/ \E n \in SmallListings : MainInvoke(n)
    \/ Alive /\ PageResponse(MainProc)
    \/ Alive /\ \E d \in ResponseData(call[MainProc]) : Response(MainProc, d)
    \/ Alive /\ \E e \in TransportErrors : ResponseFails(MainProc, e)
    \/ Alive /\ \E rem \in RemainingValues, rst \in ResetValues :
                   RateLimitResponse(MainProc, rem, rst)
    \/ Alive /\ \E rem \in RemainingValues, rst \in ResetValues : BgRefreshOk(rem, rst)
    \/ Alive /\ BgRefreshFails
    \/ MainExit
    \/ Tick

SpecCli == InitCli /\ [][NextCli]_vars

\* no operation of the service has been called
NotInvoked == call[MainProc] = IdleCall /\ bgRefresh = 0

OperationThrew == call[MainProc].pc = "failed"
ConstructionFailed == service.state = "threw"

C31_ContributorsNeverCached ==
    [][\A p \in procs :
         (call'[p].op = "getRepoContributors" /\ call'[p] # call[p]) =>
            /\ cache' = cache
            /\ call'[p].key = "" /\ call'[p].cached = Null
            /\ call'[p].limit > 0 => call'[p].nReq >= 1]_vars

\* with caching enabled and an entry in the cache, a call for contributors has
\* collected its list from the transport
C31_Witness ==
    \E p \in procs :
        /\ enableCache /\ DOMAIN cache # {}
        /\ call[p].op = "getRepoContributors" /\ call[p].pc = "done"
        /\ call[p].limit > 0 /\ call[p].nReq >= 1
        /\ Len(Val(call[p].result)) > 0

\* C32: with caching disabled, every getUser/getRepo/getUserRepos call invokes
\* its producer through the rate-limit gate (one transport request per call,
\* repeated identical calls included), and the cache map stays empty in every
\* reachable state. The producer is the gate and then the request: a call that
\* has ended with its value has made exactly one request, a call the gate has
\* not let through yet has made none, and a call that failed without a request
\* was rejected by the gate.
C32_UncachedAlwaysFetches ==
    ~enableCache =>
        /\ DOMAIN cache = {}
        /\ \A p \in procs :
              (call[p].op \in CachedOps) =>
                 /\ call[p].nGate = 1
                 /\ call[p].cached = Null
                 /\ call[p].pc \in {"sleeping", "refreshing"} => call[p].nReq = 0
                 /\ call[p].pc \in {"inflight", "done"} => call[p].nReq = 1
                 /\ call[p].pc = "failed" =>
                       \/ call[p].nReq = 1
                       \/ /\ call[p].nReq = 0 /\ failOnRateLimit
                          /\ call[p].nRefresh = 0 /\ call[p].nSleep = 0

\* with caching disabled a getUser call has its value from the transport while
\* the answers of two earlier gated requests have each left a refresh behind
C32_Witness ==
    \E p \in procs :
        /\ ~enableCache
        /\ call[p].op = "getUser" /\ call[p].pc = "done" /\ call[p].nReq = 1
        /\ bgRefresh = 2

\* remaining is set, positive, and at or below the threshold
LowButPositive ==
    /\ rateLimitRemaining # Null
    /\ 0 < Val(rateLimitRemaining)
    /\ Val(rateLimitRemaining) <= rateLimitThreshold

\* C33: if 0 < remaining <= rateLimitThreshold, the gate neither waits nor
\* fails: the call proceeds to its transport request, and exactly one
\* rate-limit refresh request is issued for that call, inline by the gate and
\* before the transport request.
C33_LowQuotaRefreshesInline ==
    [][\A p \in procs :
         /\ (GateDecides(p) /\ LowButPositive) =>
               /\ call'[p].pc = "refreshing"
               /\ call'[p].nRefresh = 1 /\ call'[p].nReq = 0
               /\ call'[p].nSleep = call[p].nSleep
         /\ (call[p].pc = "refreshing" /\ call'[p].pc # "refreshing") =>
               /\ call'[p].pc = "inflight"
               /\ call'[p].nRefresh = 1 /\ call'[p].nReq = 1
         /\ call'[p].nRefresh <= 1]_vars

\* the request of a call is out after its gate found one request left under a
\* threshold of one and asked for a refresh, which failed
C33_Witness ==
    \E p \in procs :
        /\ call[p].pc = "inflight" /\ call[p].op \in CachedOps
        /\ call[p].nRefresh = 1 /\ call[p].nSleep = 0 /\ call[p].nReq = 1
        /\ failedRefresh = "inline"
        /\ LowButPositive

\* the request of caller p's cached operation is answered in this step, and
\* not with an error
RequestAnswered(p) ==
    /\ call[p].op \in CachedOps
    /\ call[p].pc = "inflight"
    /\ call'[p].pc \notin {"inflight", "failed"}

\* C34: the fire-and-forget refresh started after a call whose remaining was
\* unset is not awaited: the triggering operation returns, and a following
\* operation may pass the gate and issue its transport request while that
\* refresh is still outstanding, so the following operation sees the stale
\* (unset) state.
C34_RefreshNotAwaited ==
    [][\A p \in procs :
         /\ (RequestAnswered(p) /\ rateLimitRemaining = Null) =>
               /\ call'[p].pc = "done" /\ call'[p].result # Null
               /\ bgRefresh' = bgRefresh + 1
               /\ rateLimitRemaining' = Null
         /\ (GateDecides(p) /\ bgRefresh > 0 /\ rateLimitRemaining = Null) =>
               /\ call'[p].pc = "inflight"
               /\ call'[p].nReq = 1 /\ call'[p].nRefresh = 0
               /\ bgRefresh' = bgRefresh
               /\ rateLimitRemaining' = Null]_vars

\* the gate of a following operation has let its request out with no refresh
\* of its own, remaining being unset still, while the refresh started by the
\* operation before it is unanswered
C34_Witness ==
    \E p \in procs :
        /\ call[p].op = "getUser" /\ call[p].pc = "inflight"
        /\ call[p].nGate = 1 /\ call[p].nRefresh = 0 /\ call[p].nSleep = 0
        /\ bgRefresh >= 1
        /\ rateLimitRemaining = Null /\ rateLimitReset = Null

\* the first k items of the upstream listing, in upstream order
UpstreamPrefix(k) == [i \in 1..k |-> i]

\* C35: for every limit > 0 and every upstream listing served with
\* page/per_page offset semantics, the list returned by getRepoContributors is
\* exactly the first min(limit, N) items of the upstream listing in upstream
\* order: no upstream item appears twice and no item among the first
\* min(limit, N) is skipped.
C35_ExactUpstreamPrefix ==
    \A p \in procs :
        ContributorsDone(p) =>
            Returned(p) = UpstreamPrefix(Min(call[p].limit, call[p].upN))

\* C36: every cache entry's expiry equals the clock value read at the cache
\* lookup (before the rate-limit gate, any rate-limit wait and the producer
\* run) plus cacheTtl, not the clock value at the moment the result is stored;
\* an entry is therefore served for a full cacheTtl only when the fetch takes
\* no time.
C36_ExpiryFromLookupTime ==
    [][/\ \A p \in procs :
             /\ (StartsCached(p) /\ enableCache) => call'[p].now = clock
             /\ (call[p].pc # "idle" /\ call'[p].pc # "idle") =>
                   call'[p].now = call[p].now
             /\ (RequestAnswered(p) /\ enableCache) =>
                   /\ call[p].key \in DOMAIN cache'
                   /\ cache'[call[p].key].expiry = call[p].now + cacheTtl
                   /\ cache'[call[p].key].expiry <= clock' + cacheTtl
       /\ cache' # cache => \E p \in procs : RequestAnswered(p)]_vars

\* a call that waited for the rate-limit reset has stored its result under an
\* expiry counted from its lookup, which the clock has reached by then
C36_Witness ==
    \E p \in procs :
        /\ call[p].pc = "done" /\ call[p].op \in CachedOps
        /\ call[p].nSleep = 1 /\ call[p].nReq = 1
        /\ cacheTtl > 0
        /\ call[p].key \in DOMAIN cache
        /\ cache[call[p].key].expiry = call[p].now + cacheTtl
        /\ call[p].now < clock
        /\ cache[call[p].key].expiry <= clock

\* caller p's cached operation fails in this step: its request throws, or its
\* gate rejects it
ProducerFails(p) ==
    /\ call'[p].op \in CachedOps
    /\ call[p].pc # "failed"
    /\ call'[p].pc = "failed"

\* C37: when the producer of a cached operation fails (transport error, or
\* rate-limit error from the gate), the cache map is left exactly as it was: no
\* entry is created or overwritten for the key, an existing expired entry
\* stays, and the failure itself is never served from the cache to a later call.
C37_FailureLeavesCache ==
    [][\A p \in procs :
         /\ ProducerFails(p) =>
               /\ cache' = cache
               /\ call'[p].result = Null
               /\ call'[p].cached # Null =>
                     /\ call'[p].key \in DOMAIN cache'
                     /\ cache'[call'[p].key] = Val(call'[p].cached)
         /\ (StartsCached(p) /\ call'[p].pc = "done") =>
               /\ call'[p].err = Null
               /\ Val(call'[p].result) \in DataValues]_vars

\* a call that found an expired entry has failed, and the entry is still there
C37_Witness ==
    \E p \in procs :
        /\ call[p].pc = "failed" /\ call[p].op \in CachedOps
        /\ call[p].cached # Null
        /\ call[p].key \in DOMAIN cache
        /\ cache[call[p].key] = Val(call[p].cached)
        /\ cache[call[p].key].expiry <= call[p].now

\* the clock, in whole seconds, is at or after reset
ResetPassed == rateLimitReset # Null /\ NowSeconds >= Val(rateLimitReset)

NoneLeft == rateLimitRemaining # Null /\ Val(rateLimitRemaining) <= 0

\* C38: a gated call never waits and never fails with a rate-limit error when
\* the current time (in whole seconds) is at or after reset, whatever remaining
\* is: with remaining <= 0 and reset already passed it performs an inline
\* refresh and proceeds to its transport request.
C38_RefreshAfterReset ==
    [][\A p \in procs :
         /\ (GateDecides(p) /\ ResetPassed) =>
               /\ call'[p].pc \notin {"sleeping", "failed"}
               /\ NoneLeft =>
                     call'[p].pc = "refreshing" /\ call'[p].nRefresh = call[p].nRefresh + 1
         /\ (call[p].pc = "refreshing" /\ call'[p].pc # "refreshing") =>
               call'[p].pc = "inflight"]_vars

\* C38, as the code has it: a gated call never waits and never fails with a
\* rate-limit error when the current time (in whole seconds) is at or after
\* reset, whatever remaining is. With remaining <= 0 and reset already passed
\* it performs an inline refresh and proceeds to its transport request when
\* remaining is at or below the threshold; when remaining is above the
\* threshold (a negative threshold) the gate returns at its first test and the
\* request goes out with no refresh.
C38_RefreshAfterResetIfLow ==
    [][\A p \in procs :
         /\ (GateDecides(p) /\ ResetPassed) =>
               /\ call'[p].pc \notin {"sleeping", "failed"}
               /\ (NoneLeft /\ Val(rateLimitRemaining) <= rateLimitThreshold) =>
                     call'[p].pc = "refreshing" /\ call'[p].nRefresh = call[p].nRefresh + 1
               /\ (NoneLeft /\ Val(rateLimitRemaining) > rateLimitThreshold) =>
                     /\ call'[p].pc = "inflight"
                     /\ call'[p].nRefresh = call[p].nRefresh
                     /\ call'[p].nReq = 1
         /\ (call[p].pc = "refreshing" /\ call'[p].pc # "refreshing") =>
               call'[p].pc = "inflight"]_vars

\* with nothing left and the reset passed, a call that never waited has its
\* request out after the refresh of its gate, which failed
C38_Witness ==
    \E p \in procs :
        /\ call[p].pc = "inflight" /\ call[p].op \in CachedOps
        /\ call[p].nSleep = 0 /\ call[p].nRefresh = 1 /\ call[p].nReq = 1
        /\ failedRefresh = "inline"
        /\ NoneLeft /\ ResetPassed
        /\ call[p].now >= Val(rateLimitReset) * MsPerSecond

\* ------------------------------------------- overlapping rate-limit requests
\* The rate-limit answers are followed from the moment the API makes them to
\* the moment they arrive: two requests that are out together can be answered
\* in one order and have their answers arrive in the other.

\* whose request an answer belongs to: a caller (its getRateLimit, or the
\* updateRateLimit its gate awaits) or a fire-and-forget updateRateLimit
Background == 0

\* a rate-limit request of r is out and the API has not answered it yet
AwaitsAnswer(r) ==
    IF r = Background
    THEN Cardinality({a \in upstream.wire : a.to = Background}) < bgRefresh
    ELSE /\ \/ call[r].op = "getRateLimit" /\ call[r].pc = "inflight"
            \/ call[r].pc = "refreshing"
         /\ \A a \in upstream.wire : a.to # r

\* the API answers a rate-limit request with the numbers it holds then
Produce(r, remaining, reset) ==
    /\ upstream.produced < MaxAnswers
    /\ AwaitsAnswer(r)
    /\ upstream' =
          [upstream EXCEPT
             !.produced = @ + 1,
             !.latest = Some([remaining |-> remaining, reset |-> reset]),
             !.wire = @ \cup {[seq |-> upstream.produced + 1, to |-> r,
                               remaining |-> remaining, reset |-> reset]}]
    /\ UNCHANGED <<enableCache, cacheTtl, rateLimitThreshold, failOnRateLimit, procs,
                   env, service, main, cache, tracker, clock, call, bgRefresh,
                   failedRefresh>>

\* the answer a has arrived and the tracker is written from it
Arrived(a) ==
    /\ a \in upstream.wire
    /\ rateLimitRemaining' = Some(a.remaining)
    /\ rateLimitReset' = Some(a.reset)
    /\ failedRefresh' = "none"
    /\ upstream' = [upstream EXCEPT !.applied = a.seq, !.wire = @ \ {a}]
    /\ UNCHANGED <<enableCache, cacheTtl, rateLimitThreshold, failOnRateLimit, procs,
                   env, service, main, cache, clock>>

\* the answer to a fire-and-forget updateRateLimit() arrives
DeliverBackground(a) ==
    /\ a.to = Background
    /\ bgRefresh > 0
    /\ bgRefresh' = bgRefresh - 1
    /\ Arrived(a)
    /\ UNCHANGED call

\* the answer to the caller's getRateLimit() arrives
DeliverRateLimit(p, a) ==
    /\ a.to = p
    /\ call[p].pc = "inflight"
    /\ call[p].op = "getRateLimit"
    /\ call' = [call EXCEPT ![p].pc = "done",
                            ![p].result = Some([remaining |-> a.remaining,
                                                reset |-> a.reset])]
    /\ Arrived(a)
    /\ UNCHANGED bgRefresh

\* the answer to the updateRateLimit() awaited by the gate arrives
DeliverRefresh(p, a) ==
    /\ a.to = p
    /\ call[p].pc = "refreshing"
    /\ call' = [call EXCEPT ![p].pc = "inflight", ![p].nReq = @ + 1]
    /\ Arrived(a)
    /\ UNCHANGED bgRefresh

NextRace ==
    \/ \E p \in procs, u \in Users : getUser(p, u)
    \/ \E p \in procs : getRateLimit(p)
    \/ \E p \in procs : Wake(p)
    \/ \E p \in procs : \E d \in ResponseData(call[p]) : Response(p, d)
    \/ \E r \in procs \cup {Background}, rem \in RemainingValues, rst \in ResetValues :
          Produce(r, rem, rst)
    \/ \E a \in upstream.wire : DeliverBackground(a)
    \/ \E p \in procs : \E a \in upstream.wire : DeliverRateLimit(p, a)
    \/ \E p \in procs : \E a \in upstream.wire : DeliverRefresh(p, a)
    \/ \E p \in procs : Return(p)
    \/ Tick

SpecRace == Init /\ [][NextRace]_vars

\* every rate-limit request that was answered has had its answer arrive
AllArrived ==
    /\ upstream.wire = {}
    /\ bgRefresh = 0
    /\ \A p \in procs : call[p].pc # "refreshing"
    /\ \A p \in procs : ~(call[p].op = "getRateLimit" /\ call[p].pc = "inflight")

\* C39: when two rate-limit-status requests overlap (a fire-and-forget refresh
\* and a later refresh or explicit getRateLimit), after both have completed the
\* tracker holds the values of the response the upstream produced last; a
\* response produced earlier never overwrites state written from a later one.
C39_LatestAnswerWins ==
    (upstream.produced >= 2 /\ AllArrived) =>
        /\ upstream.applied = upstream.produced
        /\ rateLimitReset = Some(Val(upstream.latest).reset)

\* the gate rejects: remaining is set at or below the threshold and not
\* positive, the clock is before reset, and failOnRateLimit is on
Rejecting == failOnRateLimit /\ ~GateSkips /\ InWindow /\ Exhausted

\* caller p's gate throws the rate-limit error in this step
GateRejects(p) ==
    /\ GateDecides(p)
    /\ call'[p].pc = "failed"

\* C40: a gated call rejected by the gate under failOnRateLimit = true leaves
\* remaining and reset unchanged and issues no refresh, so every following
\* gated call made before the clock reaches reset is rejected as well, unless a
\* rate-limit-status call (explicit getRateLimit or an outstanding refresh)
\* succeeds in between.
C40_RejectionPersists ==
    [][/\ \A p \in procs :
             /\ GateRejects(p) =>
                   /\ Rejecting
                   /\ UNCHANGED <<tracker, bgRefresh, cache>>
                   /\ call'[p].nRefresh = 0 /\ call'[p].nReq = 0 /\ call'[p].nSleep = 0
                   /\ Rejecting'
             /\ (GateDecides(p) /\ Rejecting) => GateRejects(p)
       /\ (Rejecting /\ ~Rejecting') =>
             \/ RateLimitStatusSucceeds
             \/ NowSeconds' >= Val(rateLimitReset)]_vars

\* a call made after the clock has moved on has been rejected by the gate, and
\* the tracker, left as it was, rejects the next one too
C40_Witness ==
    \E p \in procs :
        /\ call[p].pc = "failed" /\ call[p].op \in CachedOps
        /\ call[p].nGate = 1 /\ call[p].nReq = 0 /\ call[p].nRefresh = 0
        /\ Rejecting
        /\ bgRefresh = 0
        /\ call[p].now > 0

====
